---- MODULE Spec2Model ----
(***************************************************************************)
(* thermal_plotter.py: the RK3588 thermal log analyzer.  One run of the    *)
(* script: parse the arguments, load the CSV, print the text summary,      *)
(* render the chart.  Both print_summary and plot_report call              *)
(* detect_throttling on the loaded table.                                  *)
(*                                                                         *)
(* Strings are sequences of one-character strings, so that the regular     *)
(* expression of get_cooling_cols, str.lower and the substring tests of    *)
(* detect_throttling are computed on characters.  A cell of the table is   *)
(* a record [k, v]: k = "num" a numeric cell of value v, k = "text" a      *)
(* non-numeric string, k = "na" a missing cell.  Numbers are integers;     *)
(* a mean or a percentage is an exact fraction [n, d] with d > 0.  The     *)
(* rounding of IEEE doubles is not modelled: the tables hold no column     *)
(* whose drop is 5% to the digit, where the rounding would decide.         *)
(***************************************************************************)
EXTENDS Integers, Sequences, FiniteSets, TLC

VARIABLES
    csv,              \* the table pd.read_csv yields for args.csv
    save,             \* args.save: [given, path]; given = FALSE is None
    ip,               \* index in MainSteps of the next call of __main__
    pc,               \* where the run is
    df,               \* the loaded table (NoTable before load_csv)
    caller,           \* which function the running detect_throttling returns to
    results,          \* detect_throttling's local `results`
    cooling_cols,     \* detect_throttling's local `cooling_cols`
    ci,               \* position of `for meta in cooling_cols`
    affected,         \* detect_throttling's local `affected` (last assigned)
    throttle_summary, \* print_summary's local `throttle`
    throttle_plot,    \* plot_report's local `throttle`
    stdout,           \* the lines printed so far
    files,            \* the paths written by plt.savefig
    shown,            \* plt.show() was called
    trace             \* the calls made so far, in order

vars == <<csv, save, ip, pc, df, caller, results, cooling_cols, ci, affected,
          throttle_summary, throttle_plot, stdout, files, shown, trace>>

-----------------------------------------------------------------------------
(* Bounds of the inputs *)

MaxBlocks == 3
MaxRun == 9
MaxDevs == 2

-----------------------------------------------------------------------------
(* Strings *)

S_cool == <<"c","o","o","l">>
S_cur == <<"_","c","u","r">>
S_cpu == <<"c","p","u">>
S_freq_mhz == <<"_","f","r","e","q","_","m","h","z">>
S_util_pct == <<"_","u","t","i","l","_","p","c","t">>
S_npu_core == <<"n","p","u","_","c","o","r","e">>
S_pct == <<"_","p","c","t">>
S_temp == <<"t","e","m","p","_">>
S_C == <<"_","C">>
elapsed_sec == <<"e","l","a","p","s","e","d","_","s","e","c">>
elapsed_min == <<"e","l","a","p","s","e","d","_","m","i","n">>
any_throttle == <<"a","n","y","_","t","h","r","o","t","t","l","e">>
cpufreq_0 == <<"c","p","u","f","r","e","q","_","0">>
cpufreq_d0 == <<"c","p","u","f","r","e","q","-","0">>
cpufreq_1 == <<"c","p","u","f","r","e","q","_","1">>
cpufreq_d1 == <<"c","p","u","f","r","e","q","-","1">>
cpufreq_2 == <<"c","p","u","f","r","e","q","_","2">>
cpufreq_d2 == <<"c","p","u","f","r","e","q","-","2">>

Digits == <<"0","1","2","3","4","5","6","7","8","9">>

IsDigit(ch) == \E i \in 1..10 : Digits[i] = ch

DigitVal(ch) == (CHOOSE i \in 1..10 : Digits[i] = ch) - 1

\* int(s) of a non-empty string of digits
RECURSIVE IntOf(_)
IntOf(s) ==
    IF Len(s) = 0 THEN 0
    ELSE 10 * IntOf(SubSeq(s, 1, Len(s) - 1)) + DigitVal(s[Len(s)])

\* str(n) of n >= 0, as an f-string formats it
RECURSIVE StrOf(_)
StrOf(n) ==
    IF n < 10 THEN <<Digits[n + 1]>>
    ELSE StrOf(n \div 10) \o <<Digits[(n % 10) + 1]>>

LowerChar(ch) ==
    CASE ch = "A" -> "a" [] ch = "B" -> "b" [] ch = "C" -> "c" [] ch = "D" -> "d"
      [] ch = "E" -> "e" [] ch = "F" -> "f" [] ch = "G" -> "g" [] ch = "H" -> "h"
      [] ch = "I" -> "i" [] ch = "J" -> "j" [] ch = "K" -> "k" [] ch = "L" -> "l"
      [] ch = "M" -> "m" [] ch = "N" -> "n" [] ch = "O" -> "o" [] ch = "P" -> "p"
      [] ch = "Q" -> "q" [] ch = "R" -> "r" [] ch = "S" -> "s" [] ch = "T" -> "t"
      [] ch = "U" -> "u" [] ch = "V" -> "v" [] ch = "W" -> "w" [] ch = "X" -> "x"
      [] ch = "Y" -> "y" [] ch = "Z" -> "z" [] OTHER -> ch

\* str.lower()
lower(s) == [i \in 1..Len(s) |-> LowerChar(s[i])]

\* `tok in t`
Contains(t, tok) ==
    \E i \in 1..(Len(t) - Len(tok) + 1) : SubSeq(t, i, i + Len(tok) - 1) = tok

startswith(s, p) == Len(s) >= Len(p) /\ SubSeq(s, 1, Len(p)) = p

endswith(s, p) == Len(s) >= Len(p) /\ SubSeq(s, Len(s) - Len(p) + 1, Len(s)) = p

cpu_freq_col(c) == S_cpu \o StrOf(c) \o S_freq_mhz

cpu_util_col(c) == S_cpu \o StrOf(c) \o S_util_pct

npu_col(i) == S_npu_core \o StrOf(i) \o S_pct

-----------------------------------------------------------------------------
(* Series *)

Range(s) == {s[i] : i \in DOMAIN s}

NaN == [nan |-> TRUE, v |-> 0]

Num(x) == [nan |-> FALSE, v |-> x]

\* pd.to_numeric(series, errors='coerce'): a non-numeric or missing cell is NaN
to_numeric(cells) ==
    [i \in 1..Len(cells) |-> IF cells[i].k = "num" THEN Num(cells[i].v) ELSE NaN]

\* Series.dropna(), as the sequence of the remaining values
dropna(s) ==
    LET kept == SelectSeq(s, LAMBDA x : ~x.nan)
    IN  [i \in 1..Len(kept) |-> kept[i].v]

\* Series.fillna(z), as the sequence of its values
fillna(s, z) == [i \in 1..Len(s) |-> IF s[i].nan THEN z ELSE s[i].v]

\* Series.head(n)
head(s, n) == SubSeq(s, 1, IF Len(s) < n THEN Len(s) ELSE n)

RECURSIVE SumSeq(_)
SumSeq(s) == IF Len(s) = 0 THEN 0 ELSE s[1] + SumSeq(Tail(s))

\* Series.max() and Series.min() of a non-empty series without NaN
SeriesMax(s) == CHOOSE x \in Range(s) : \A y \in Range(s) : y <= x

SeriesMin(s) == CHOOSE x \in Range(s) : \A y \in Range(s) : x <= y

\* Series.mean() of a non-empty series without NaN, as the fraction n/d
mean(s) == [n |-> SumSeq(s), d |-> Len(s)]

\* a count of the samples that are not 0
CountNonZero(vals) == Cardinality({i \in DOMAIN vals : vals[i] # 0})

\* (vals > 0).sum()
CountPositive(vals) == Cardinality({i \in DOMAIN vals : vals[i] > 0})

-----------------------------------------------------------------------------
(* get_cooling_cols *)

\* the end of the longest run of digits of col that starts at position 5
\* (4 when col[5] is no digit): what the greedy (\d+) takes
RECURSIVE DigitsEnd(_, _)
DigitsEnd(col, j) ==
    IF j + 1 <= Len(col) /\ IsDigit(col[j + 1]) THEN DigitsEnd(col, j + 1) ELSE j

\* re.compile(r'^cool(\d+)_(.+)_cur$').match(col): (\d+) cannot give back a
\* digit, for the character after it must be "_"; (.+) is what lies between
\* that "_" and the final "_cur", and is not empty
cool_match(col) ==
    LET j == DigitsEnd(col, 4)
    IN  /\ startswith(col, S_cool)
        /\ j >= 5
        /\ Len(col) >= j + 1 + 1 + 4
        /\ col[j + 1] = "_"
        /\ endswith(col, S_cur)

cool_meta(col) ==
    LET j == DigitsEnd(col, 4)
    IN  [col |-> col,
         idx |-> IntOf(SubSeq(col, 5, j)),
         type |-> SubSeq(col, j + 2, Len(col) - 4)]

\* sorted(result, key=lambda x: x['idx']): stable, by insertion
RECURSIVE InsertByIdx(_, _)
InsertByIdx(sorted, m) ==
    IF Len(sorted) = 0 THEN <<m>>
    ELSE IF sorted[Len(sorted)].idx <= m.idx THEN Append(sorted, m)
    ELSE Append(InsertByIdx(SubSeq(sorted, 1, Len(sorted) - 1), m),
                sorted[Len(sorted)])

RECURSIVE SortedByIdx(_)
SortedByIdx(s) ==
    IF Len(s) = 0 THEN <<>>
    ELSE InsertByIdx(SortedByIdx(SubSeq(s, 1, Len(s) - 1)), s[Len(s)])

get_cooling_cols(d) ==
    LET matched == SelectSeq(d.columns, cool_match)
        result == [i \in 1..Len(matched) |-> cool_meta(matched[i])]
    IN  SortedByIdx(result)

-----------------------------------------------------------------------------
(* detect_throttling *)

NCores == 8
HeadN == 10
DropThreshold == 5

\* a mean that forgets to divide
SumHead(freq) == [n |-> SumSeq(head(freq, HeadN)), d |-> 1]

\* a mean over all the valid samples
MeanAll(freq) == mean(freq)

\* init_f = freq.head(10).mean()
init_mhz_of(freq) == mean(head(freq, HeadN))

\* drop_pct = (1 - min_f / init_f) * 100 if init_f > 0 else 0, with
\* init_f = n/d: (1 - min_f*d/n) * 100 = 100 * (n - min_f*d) / n
drop_pct_of(min_f, init_f) ==
    IF init_f.n > 0
    THEN [n |-> 100 * (init_f.n - min_f * init_f.d), d |-> init_f.n]
    ELSE [n |-> 0, d |-> 1]

\* drop_pct > 5
over_threshold(drop_pct) == drop_pct.n > DropThreshold * drop_pct.d

\* the record of lines 68-78, from the valid samples of one core
freq_record(freq) ==
    LET max_f == SeriesMax(freq)
        min_f == SeriesMin(freq)
        init_f == init_mhz_of(freq)
        drop_pct == drop_pct_of(min_f, init_f)
    IN  [max_mhz |-> max_f, min_mhz |-> min_f,
         init_mhz |-> init_f, drop_pct |-> drop_pct,
         throttled_by_freq |-> over_threshold(drop_pct),
         throttled_by_cooling |-> FALSE,
         throttled |-> over_threshold(drop_pct)]

\* freq of line 65 for core c
core_freq(d, c) == dropna(to_numeric(d.data[cpu_freq_col(c)]))

\* the cores the loop of lines 61-78 does not skip
freq_cores(d) ==
    {c \in 0..(NCores - 1) :
        /\ cpu_freq_col(c) \in Range(d.columns)
        /\ Len(core_freq(d, c)) > 0}

\* results after the loop of lines 61-78
freq_pass(d) == [c \in freq_cores(d) |-> freq_record(core_freq(d, c))]

\* vals of line 83
cooling_vals(d, meta) == fillna(to_numeric(d.data[meta.col]), 0)

\* throttled_rows of line 84
throttled_rows(vals) == CountPositive(vals)

\* the mapping without str.lower()
AffectedCaseSensitive(type) ==
    LET t == type
    IN  IF Contains(t, cpufreq_0) \/ Contains(t, cpufreq_d0) THEN <<0, 1, 2, 3>>
        ELSE IF Contains(t, cpufreq_1) \/ Contains(t, cpufreq_d1) THEN <<4, 5>>
        ELSE IF Contains(t, cpufreq_2) \/ Contains(t, cpufreq_d2) THEN <<6, 7>>
        ELSE [i \in 1..NCores |-> i - 1]

\* affected of lines 89-97
affected_of(type) ==
    LET t == lower(type)
    IN  IF Contains(t, cpufreq_0) \/ Contains(t, cpufreq_d0) THEN <<0, 1, 2, 3>>
        ELSE IF Contains(t, cpufreq_1) \/ Contains(t, cpufreq_d1) THEN <<4, 5>>
        ELSE IF Contains(t, cpufreq_2) \/ Contains(t, cpufreq_d2) THEN <<6, 7>>
        ELSE [i \in 1..NCores |-> i - 1]

\* line 101 without line 102
MarkOnlyCooling(res, aff) ==
    [c \in DOMAIN res |->
        IF c \in Range(aff)
        THEN [res[c] EXCEPT !.throttled_by_cooling = TRUE]
        ELSE res[c]]

\* lines 99-102 without the test of line 100
MarkCreating(res, aff) ==
    [c \in DOMAIN res \cup Range(aff) |->
        IF c \in Range(aff)
        THEN IF c \in DOMAIN res
             THEN [res[c] EXCEPT !.throttled_by_cooling = TRUE, !.throttled = TRUE]
             ELSE [max_mhz |-> 0, min_mhz |-> 0,
                   init_mhz |-> [n |-> 0, d |-> 1], drop_pct |-> [n |-> 0, d |-> 1],
                   throttled_by_freq |-> FALSE,
                   throttled_by_cooling |-> TRUE, throttled |-> TRUE]
        ELSE res[c]]

\* results after the loop of lines 99-102
mark_cooling(res, aff) ==
    [c \in DOMAIN res |->
        IF c \in Range(aff)
        THEN [res[c] EXCEPT !.throttled_by_cooling = TRUE, !.throttled = TRUE]
        ELSE res[c]]

\* a fillna(0) written back to the column
FillnaInPlace(d, col) ==
    [d EXCEPT !.data[col] =
        [i \in 1..Len(d.data[col]) |->
            IF d.data[col][i].k = "num" THEN d.data[col][i]
            ELSE [k |-> "num", v |-> 0]]]

\* the table after line 83: to_numeric and fillna return new series, the
\* column read stays as it is
table_after_fillna(d, col) == d

-----------------------------------------------------------------------------
(* print_summary *)

NNpu == 3

\* CPU_CLUSTER_CFG, in the order of the dict
CPU_CLUSTER_CFG ==
    <<[name |-> "A55 (0-3)", cores |-> <<0, 1, 2, 3>>],
      [name |-> "A76-0 (4-5)", cores |-> <<4, 5>>],
      [name |-> "A76-1 (6-7)", cores |-> <<6, 7>>]>>

\* a printed statistic: NaN, or the fraction n/d
StatNaN == [nan |-> TRUE, n |-> 0, d |-> 1]

Stat(n, d) == [nan |-> FALSE, n |-> n, d |-> d]

\* Series.mean(), .min(), .max() with skipna: NaN for a series without a value
stat_mean(vals) == IF Len(vals) = 0 THEN StatNaN ELSE Stat(SumSeq(vals), Len(vals))

stat_min(vals) == IF Len(vals) = 0 THEN StatNaN ELSE Stat(SeriesMin(vals), 1)

stat_max(vals) == IF Len(vals) = 0 THEN StatNaN ELSE Stat(SeriesMax(vals), 1)

StatLeq(a, b) == a.n * b.d <= b.n * a.d

\* the mean, min and max of a sequence of statistics, skipping NaN
RECURSIVE StatSum(_)
StatSum(ss) ==
    IF Len(ss) = 0 THEN Stat(0, 1)
    ELSE LET r == StatSum(Tail(ss))
         IN  Stat(ss[1].n * r.d + r.n * ss[1].d, ss[1].d * r.d)

stats_mean(ss) ==
    LET kept == SelectSeq(ss, LAMBDA x : ~x.nan)
    IN  IF Len(kept) = 0 THEN StatNaN
        ELSE Stat(StatSum(kept).n, StatSum(kept).d * Len(kept))

stats_min(ss) ==
    LET kept == SelectSeq(ss, LAMBDA x : ~x.nan)
    IN  IF Len(kept) = 0 THEN StatNaN
        ELSE CHOOSE x \in Range(kept) : \A y \in Range(kept) : StatLeq(x, y)

stats_max(ss) ==
    LET kept == SelectSeq(ss, LAMBDA x : ~x.nan)
    IN  IF Len(kept) = 0 THEN StatNaN
        ELSE CHOOSE x \in Range(kept) : \A y \in Range(kept) : StatLeq(y, x)

\* str.replace(old, new): every occurrence, left to right
RECURSIVE replace(_, _, _)
replace(s, old, new) ==
    IF Len(s) < Len(old) THEN s
    ELSE IF startswith(s, old)
    THEN new \o replace(SubSeq(s, Len(old) + 1, Len(s)), old, new)
    ELSE <<s[1]>> \o replace(Tail(s), old, new)

\* sorted(throttle)
RECURSIVE SortedKeys(_)
SortedKeys(S) ==
    IF S = {} THEN <<>>
    ELSE LET m == CHOOSE x \in S : \A y \in S : x <= y
         IN  <<m>> \o SortedKeys(S \ {m})

\* one printed line: its section, what it is about, the numbers and the words
Line(sec, key, stats, words) ==
    [sec |-> sec, key |-> key, stats |-> stats, words |-> words]

len(d) == d.nrows

\* (any_t > 0).sum() / len(df) * 100
any_throttle_pct(d) ==
    Stat(100 * CountPositive(fillna(to_numeric(d.data[any_throttle]), 0)), len(d))

banner_lines ==
    <<Line("banner", "THROTTLING & UTILIZATION ANALYSIS SUMMARY  (v2)", <<>>, <<>>)>>

\* lines 310-324
cooling_lines(d) ==
    LET cooling_meta == get_cooling_cols(d)
        row(meta) ==
            LET vals == fillna(to_numeric(d.data[meta.col]), 0)
                pct == Stat(100 * CountPositive(vals), len(d))
                mx == Stat(SeriesMax(vals), 1)
            IN  Line("cooling", meta.type, <<pct, mx>>,
                     IF pct.n > 0 THEN <<"THROTTLED">> ELSE <<"clean">>)
    IN  IF Len(cooling_meta) = 0 THEN <<>>
        ELSE <<Line("header", "Cooling Device cur_state", <<>>, <<>>)>>
             \o [i \in 1..Len(cooling_meta) |-> row(cooling_meta[i])]
             \o (IF any_throttle \in Range(d.columns)
                 THEN <<Line("any_throttle", "Any-throttle duration",
                             <<any_throttle_pct(d)>>, <<>>)>>
                 ELSE <<>>)

\* lines 326-335
freq_lines(throttle) ==
    LET keys == SortedKeys(DOMAIN throttle)
        row(c) ==
            LET info == throttle[c]
                causes == (IF info.throttled_by_freq THEN <<"freq_drop">> ELSE <<>>)
                          \o (IF info.throttled_by_cooling
                              THEN <<"cooling_state">> ELSE <<>>)
            IN  Line("freq", c,
                     <<Stat(info.init_mhz.n, info.init_mhz.d), Stat(info.min_mhz, 1),
                       Stat(info.drop_pct.n, info.drop_pct.d)>>,
                     IF info.throttled THEN causes ELSE <<"OK">>)
    IN  <<Line("header", "CPU Frequency", <<>>, <<>>)>>
        \o [i \in 1..Len(keys) |-> row(keys[i])]

\* lines 337-344
util_lines(d) ==
    LET util_cols(cfg) ==
            LET present == SelectSeq(cfg.cores,
                                     LAMBDA c : cpu_util_col(c) \in Range(d.columns))
            IN  [i \in 1..Len(present) |-> cpu_util_col(present[i])]
        vals(col) == dropna(to_numeric(d.data[col]))
        row(cfg) ==
            LET cols == util_cols(cfg)
            IN  IF Len(cols) = 0 THEN <<>>
                ELSE <<Line("util", cfg.name,
                            <<stats_mean([i \in 1..Len(cols) |-> stat_mean(vals(cols[i]))]),
                              stats_min([i \in 1..Len(cols) |-> stat_min(vals(cols[i]))]),
                              stats_max([i \in 1..Len(cols) |-> stat_max(vals(cols[i]))])>>,
                            <<>>)>>
    IN  <<Line("header", "CPU Utilization", <<>>, <<>>)>>
        \o row(CPU_CLUSTER_CFG[1]) \o row(CPU_CLUSTER_CFG[2]) \o row(CPU_CLUSTER_CFG[3])

\* lines 349-352 for core i
npu_row(d, i) ==
    LET col == npu_col(i)
    IN  IF col \in Range(d.columns)
        THEN LET vals == dropna(to_numeric(d.data[col]))
             IN  <<Line("npu", i, <<stat_mean(vals), stat_min(vals), stat_max(vals)>>,
                        <<>>)>>
        ELSE <<>>

\* lines 346-352
RECURSIVE npu_rows(_, _)
npu_rows(d, i) == IF i >= NNpu THEN <<>> ELSE npu_row(d, i) \o npu_rows(d, i + 1)

npu_lines(d) == <<Line("header", "NPU Utilization", <<>>, <<>>)>> \o npu_rows(d, 0)

\* temp_cols of lines 129 and 356
temp_cols_of(d) ==
    SelectSeq(d.columns, LAMBDA c : startswith(c, S_temp) /\ endswith(c, S_C))

\* lines 357-362 for one column
temp_row(d, col) ==
    LET vals == dropna(to_numeric(d.data[col]))
        label == replace(replace(col, S_temp, <<>>), S_C, <<>>)
    IN  IF Len(vals) = 0 THEN <<>>
        ELSE <<Line("temp", label,
                    <<stat_min(vals), stat_max(vals), stat_mean(vals),
                      Stat(SeriesMax(vals) - SeriesMin(vals), 1)>>,
                    <<>>)>>

RECURSIVE temp_rows(_, _)
temp_rows(d, cols) ==
    IF Len(cols) = 0 THEN <<>> ELSE temp_row(d, cols[1]) \o temp_rows(d, Tail(cols))

\* lines 354-362
temp_lines(d) ==
    <<Line("header", "Temperatures", <<>>, <<>>)>> \o temp_rows(d, temp_cols_of(d))

\* lines 364-365: duration / 60 and len(df)
duration_lines(d) ==
    LET duration == stat_max(dropna(to_numeric(d.data[elapsed_sec])))
    IN  <<Line("duration", "Duration",
               <<[duration EXCEPT !.d = 60 * duration.d], Stat(len(d), 1)>>,
               <<>>)>>

\* what print_summary prints after detect_throttling returned (lines 310-366)
summary_lines(d, throttle) ==
    cooling_lines(d) \o freq_lines(throttle) \o util_lines(d)
    \o npu_lines(d) \o temp_lines(d) \o duration_lines(d)

-----------------------------------------------------------------------------
(* plot_report *)

\* the cores annotated on panel 1 (lines 170-174)
annotated_cores(throttle) ==
    {c \in DOMAIN throttle : throttle[c].throttled_by_freq /\ c \in {0, 4, 6}}

\* the cluster entries of the bottom summary text (lines 276-284)
cluster_summary(throttle) ==
    LET entry(cfg) ==
            LET c == cfg.cores[1]
            IN  IF c \in DOMAIN throttle /\ throttle[c].throttled
                THEN <<Line("chart", cfg.name, <<>>,
                            (IF throttle[c].throttled_by_freq THEN <<"freq">> ELSE <<>>)
                            \o (IF throttle[c].throttled_by_cooling
                                THEN <<"cooling">> ELSE <<>>))>>
                ELSE IF c \in DOMAIN throttle
                THEN <<Line("chart", cfg.name,
                            <<Stat(throttle[c].init_mhz.n, throttle[c].init_mhz.d)>>,
                            <<"ok">>)>>
                ELSE <<>>
    IN  entry(CPU_CLUSTER_CFG[1]) \o entry(CPU_CLUSTER_CFG[2]) \o entry(CPU_CLUSTER_CFG[3])

\* what of the figure depends on the table and on throttle
figure_of(d, throttle) ==
    [n_panels |-> 5 + (IF Len(get_cooling_cols(d)) > 0 THEN 1 ELSE 0),
     annotated |-> annotated_cores(throttle),
     summary |-> cluster_summary(throttle)]

\* the test the wrong way round
TruthyInverted(save_path) == ~(save_path.given /\ Len(save_path.path) > 0)

\* `if save_path:` None and the empty string are both false
truthy(save_path) == save_path.given /\ Len(save_path.path) > 0

-----------------------------------------------------------------------------
(* load_csv *)

NoTable == [columns |-> <<>>, data |-> <<>>, nrows |-> 0]

\* df['elapsed_sec'] / 60.0 is evaluated: the column is there and holds no string
can_load(t) ==
    /\ elapsed_sec \in Range(t.columns)
    /\ \A i \in 1..t.nrows : t.data[elapsed_sec][i].k # "text"

\* df['elapsed_min'] = df['elapsed_sec'] / 60.0: a new last column (the inputs
\* hold whole minutes, so the quotient is an integer)
load_csv(t) ==
    LET minutes == [i \in 1..t.nrows |->
                       IF t.data[elapsed_sec][i].k = "num"
                       THEN [k |-> "num", v |-> t.data[elapsed_sec][i].v \div 60]
                       ELSE [k |-> "na", v |-> 0]]
    IN  [columns |-> IF elapsed_min \in Range(t.columns) THEN t.columns
                     ELSE Append(t.columns, elapsed_min),
         data |-> [c \in Range(t.columns) \cup {elapsed_min} |->
                      IF c = elapsed_min THEN minutes ELSE t.data[c]],
         nrows |-> t.nrows]

-----------------------------------------------------------------------------
(* The inputs: the tables read and the arguments given *)

N(v) == [k |-> "num", v |-> v]

Text == [k |-> "text", v |-> 0]

Missing == [k |-> "na", v |-> 0]

\* a table of nrows rows: elapsed_sec (one sample a minute) and the columns cols
mk_table(cols, nrows) ==
    [columns |-> <<elapsed_sec>> \o [i \in 1..Len(cols) |-> cols[i].name],
     data |-> [c \in {elapsed_sec} \cup {cols[i].name : i \in 1..Len(cols)} |->
                  IF c = elapsed_sec THEN [i \in 1..nrows |-> N(60 * (i - 1))]
                  ELSE (CHOOSE x \in Range(cols) : x.name = c).cells],
     nrows |-> nrows]

Col(name, cells) == [name |-> name, cells |-> cells]

\* lens[i] rows of vals[i], for each i in turn
RECURSIVE Expand(_, _)
Expand(lens, vals) ==
    IF Len(lens) = 0 THEN <<>>
    ELSE [i \in 1..lens[1] |-> vals[1]] \o Expand(Tail(lens), Tail(vals))

\* Frequency tables: one cpu{c}_freq_mhz column made of up to MaxBlocks runs of
\* 1 or MaxRun equal cells (frequencies in units of 100 MHz)
FreqCells == {N(-1), N(0), N(18), N(20), Text, Missing}

FreqFamilyCores == {7}

FreqTable(lens, vals, c) ==
    mk_table(<<Col(cpu_freq_col(c), Expand(lens, vals))>>, SumSeq(lens))

FreqInput ==
    \E nb \in 1..MaxBlocks :
        \E lens \in [1..nb -> {1, MaxRun}], vals \in [1..nb -> FreqCells],
           c \in FreqFamilyCores :
            csv = FreqTable(lens, vals, c)

\* Cooling tables: two rows; cores 0, 4 steady, core 1 dropping by half, core 6
\* dropping by less than 5%, cores 3 and 7 without a valid sample, cores 2 and 5
\* without a column; and up to MaxDevs cooling device columns of different types
T_thermal_cpufreq_0 == <<"t","h","e","r","m","a","l","-","c","p","u","f","r","e","q","-","0">>
T_thermal_cpufreq_1 == <<"t","h","e","r","m","a","l","_","c","p","u","f","r","e","q","_","1">>
T_CPUFREQ_2 == <<"C","P","U","F","R","E","Q","-","2">>
T_thermal_devfreq_0 == <<"t","h","e","r","m","a","l","-","d","e","v","f","r","e","q","-","0">>
T_two_tokens == <<"c","p","u","f","r","e","q","_","2","-","c","p","u","f","r","e","q","-","0">>

CoolTypes ==
    {T_thermal_cpufreq_0, T_thermal_cpufreq_1, T_CPUFREQ_2, T_thermal_devfreq_0,
     T_two_tokens}

CoolIdx == {2, 10}

CoolCells == {<<N(0), N(2)>>, <<Text, Missing>>, <<N(-1), N(0)>>}

cool_col(idx, type) == S_cool \o StrOf(idx) \o <<"_">> \o type \o S_cur

CoolDevs == {Col(cool_col(i, t), cells) : i \in CoolIdx, t \in CoolTypes, cells \in CoolCells}

FreqPattern ==
    <<Col(cpu_freq_col(0), <<N(20), N(20)>>), Col(cpu_freq_col(1), <<N(20), N(10)>>),
      Col(cpu_freq_col(3), <<Text, Missing>>), Col(cpu_freq_col(4), <<N(20), N(20)>>),
      Col(cpu_freq_col(6), <<N(20), N(19)>>), Col(cpu_freq_col(7), <<Text, Text>>)>>

CoolingInput ==
    \E n \in 0..MaxDevs :
        \E devs \in [1..n -> CoolDevs] :
            /\ \A i, j \in 1..n : i # j => cool_meta(devs[i].name).type # cool_meta(devs[j].name).type
            /\ csv = mk_table(FreqPattern \o devs, 2)

\* Report tables: two rows; each of cpu0_util_pct, cpu1_util_pct, npu_core0_pct
\* and temp_soc_C absent, valid, or without a valid cell; any_throttle and one
\* cooling device there or not
S_temp_soc_C == <<"t","e","m","p","_","s","o","c","_","C">>

Optional == {<<>>, <<N(50), N(70)>>, <<Text, Missing>>}

opt_col(name, cells) == IF Len(cells) = 0 THEN <<>> ELSE <<Col(name, cells)>>

ReportInput ==
    \E u0 \in Optional, u1 \in Optional, n0 \in Optional, t0 \in Optional,
       at \in {<<>>, <<N(0), N(1)>>}, cd \in {<<>>, <<N(0), N(2)>>} :
        csv = mk_table(<<Col(cpu_freq_col(0), <<N(20), N(10)>>)>>
                       \o opt_col(cpu_util_col(0), u0) \o opt_col(cpu_util_col(1), u1)
                       \o opt_col(npu_col(0), n0) \o opt_col(S_temp_soc_C, t0)
                       \o opt_col(any_throttle, at)
                       \o opt_col(cool_col(0, T_thermal_cpufreq_0), cd),
                       2)

\* a file without the elapsed_sec column
BadTable ==
    [columns |-> <<cpu_freq_col(0)>>,
     data |-> [c \in {cpu_freq_col(0)} |-> <<N(20), N(10)>>],
     nrows |-> 2]

S_report_png == <<"r","e","p","o","r","t",".","p","n","g">>

None == [given |-> FALSE, path |-> <<>>]

\* no --save, --save '' and --save report.png
SaveArgs == {None, [given |-> TRUE, path |-> <<>>], [given |-> TRUE, path |-> S_report_png]}

-----------------------------------------------------------------------------
(* The run *)

Unset == [set |-> FALSE, val |-> <<>>]

Value(v) == [set |-> TRUE, val |-> v]

\* the two reports called the other way round
MainPlotFirst == <<"load_csv", "plot_report", "print_summary">>

\* the calls of __main__ after parse_args (lines 377-379)
MainSteps == <<"load_csv", "print_summary", "plot_report">>

Init ==
    /\ \/ FreqInput /\ save = None
       \/ CoolingInput /\ save = None
       \/ (ReportInput \/ csv = BadTable) /\ save \in SaveArgs
    /\ ip = 1
    /\ pc = "main"
    /\ df = NoTable
    /\ caller = "none"
    /\ results = <<>>
    /\ cooling_cols = <<>>
    /\ ci = 0
    /\ affected = <<>>
    /\ throttle_summary = Unset
    /\ throttle_plot = Unset
    /\ stdout = <<>>
    /\ files = {}
    /\ shown = FALSE
    /\ trace = <<>>

AtMain(step) == pc = "main" /\ ip <= Len(MainSteps) /\ MainSteps[ip] = step

\* df = load_csv(args.csv); a missing elapsed_sec column raises KeyError
LoadCsv ==
    /\ AtMain("load_csv")
    /\ IF can_load(csv)
       THEN /\ df' = load_csv(csv)
            /\ pc' = "main"
            /\ ip' = ip + 1
            /\ trace' = Append(trace, "load_csv")
       ELSE /\ pc' = "crashed"
            /\ UNCHANGED <<df, ip, trace>>
    /\ UNCHANGED <<csv, save, caller, results, cooling_cols, ci, affected,
                   throttle_summary, throttle_plot, stdout, files, shown>>

\* print_summary up to its call of detect_throttling (lines 304-308, 58)
SummaryBegin ==
    /\ AtMain("print_summary")
    /\ stdout' = stdout \o banner_lines
    /\ caller' = "print_summary"
    /\ results' = <<>>
    /\ pc' = "detect_freq"
    /\ trace' = trace \o <<"print_summary", "detect_throttling">>
    /\ UNCHANGED <<csv, save, ip, df, cooling_cols, ci, affected,
                   throttle_summary, throttle_plot, files, shown>>

\* plot_report up to its call of detect_throttling (lines 128-158, 58)
PlotBegin ==
    /\ AtMain("plot_report")
    /\ caller' = "plot_report"
    /\ results' = <<>>
    /\ pc' = "detect_freq"
    /\ trace' = trace \o <<"plot_report", "detect_throttling">>
    /\ UNCHANGED <<csv, save, ip, df, cooling_cols, ci, affected,
                   throttle_summary, throttle_plot, stdout, files, shown>>

\* lines 61-81: the frequency loop, then cooling_cols = get_cooling_cols(df)
DetectFreq ==
    /\ pc = "detect_freq"
    /\ results' = freq_pass(df)
    /\ cooling_cols' = get_cooling_cols(df)
    /\ ci' = 1
    /\ pc' = "detect_cooling"
    /\ UNCHANGED <<csv, save, ip, df, caller, affected, throttle_summary,
                   throttle_plot, stdout, files, shown, trace>>

\* lines 82-102: one turn of `for meta in cooling_cols`
DetectCooling ==
    /\ pc = "detect_cooling"
    /\ ci <= Len(cooling_cols)
    /\ LET meta == cooling_cols[ci]
           vals == cooling_vals(df, meta)
       IN  /\ df' = table_after_fillna(df, meta.col)
           /\ IF throttled_rows(vals) = 0
              THEN UNCHANGED <<results, affected>>
              ELSE /\ affected' = affected_of(meta.type)
                   /\ results' = mark_cooling(results, affected_of(meta.type))
    /\ ci' = ci + 1
    /\ UNCHANGED <<csv, save, ip, pc, caller, cooling_cols, throttle_summary,
                   throttle_plot, stdout, files, shown, trace>>

\* line 104: return results, to line 308 or to line 158
DetectReturn ==
    /\ pc = "detect_cooling"
    /\ ci > Len(cooling_cols)
    /\ IF caller = "print_summary"
       THEN /\ throttle_summary' = Value(results)
            /\ pc' = "summary_print"
            /\ UNCHANGED throttle_plot
       ELSE /\ throttle_plot' = Value(results)
            /\ pc' = "plot_draw"
            /\ UNCHANGED throttle_summary
    /\ UNCHANGED <<csv, save, ip, df, caller, results, cooling_cols, ci, affected,
                   stdout, files, shown, trace>>

\* the rest of print_summary (lines 310-366)
SummaryPrint ==
    /\ pc = "summary_print"
    /\ stdout' = stdout \o summary_lines(df, throttle_summary.val)
    /\ pc' = "main"
    /\ ip' = ip + 1
    /\ UNCHANGED <<csv, save, df, caller, results, cooling_cols, ci, affected,
                   throttle_summary, throttle_plot, files, shown, trace>>

\* the rest of plot_report up to savefig or show (lines 160-295, 298)
PlotDraw ==
    /\ pc = "plot_draw"
    /\ IF truthy(save)
       THEN /\ files' = files \cup {[path |-> save.path,
                                     figure |-> figure_of(df, throttle_plot.val)]}
            /\ pc' = "plot_saved"
            /\ UNCHANGED <<shown, ip>>
       ELSE /\ shown' = TRUE
            /\ pc' = "main"
            /\ ip' = ip + 1
            /\ UNCHANGED files
    /\ UNCHANGED <<csv, save, df, caller, results, cooling_cols, ci, affected,
                   throttle_summary, throttle_plot, stdout, trace>>

\* line 296: print(f"Saved: {save_path}")
PlotPrintSaved ==
    /\ pc = "plot_saved"
    /\ stdout' = Append(stdout, Line("saved", save.path, <<>>, <<>>))
    /\ pc' = "main"
    /\ ip' = ip + 1
    /\ UNCHANGED <<csv, save, df, caller, results, cooling_cols, ci, affected,
                   throttle_summary, throttle_plot, files, shown, trace>>

\* the script ends after its last call
Exit ==
    /\ pc = "main"
    /\ ip > Len(MainSteps)
    /\ pc' = "done"
    /\ trace' = Append(trace, "exit")
    /\ UNCHANGED <<csv, save, ip, df, caller, results, cooling_cols, ci, affected,
                   throttle_summary, throttle_plot, stdout, files, shown>>

Next ==
    \/ LoadCsv
    \/ SummaryBegin
    \/ DetectFreq
    \/ DetectCooling
    \/ DetectReturn
    \/ SummaryPrint
    \/ PlotBegin
    \/ PlotDraw
    \/ PlotPrintSaved
    \/ Exit

Spec == Init /\ [][Next]_vars

-----------------------------------------------------------------------------
(* What the claims speak of, stated on the cells of the table *)

Cores == 0..7

\* the rows of column col that hold a number
ValidRows(d, col) == {i \in 1..d.nrows : d.data[col][i].k = "num"}

\* the rows of the first n valid samples of column col
FirstValidRows(d, col, n) ==
    LET valid == ValidRows(d, col)
    IN  {i \in valid : Cardinality({j \in valid : j < i}) < n}

RECURSIVE SumRows(_, _)
SumRows(cells, rows) ==
    IF rows = {} THEN 0
    ELSE LET i == CHOOSE x \in rows : TRUE
         IN  cells[i].v + SumRows(cells, rows \ {i})

\* core c has a frequency column with at least one valid sample
HasFreq(d, c) ==
    /\ cpu_freq_col(c) \in Range(d.columns)
    /\ ValidRows(d, cpu_freq_col(c)) # {}

\* at least one sample of column col is a number above 0
Active(d, col) == \E i \in ValidRows(d, col) : d.data[col][i].v > 0

\* tok occurs in t once t is lower-cased
HasToken(t, tok) ==
    \E i \in 1..Len(t) :
        /\ i + Len(tok) - 1 <= Len(t)
        /\ \A k \in 1..Len(tok) : LowerChar(t[i + k - 1]) = tok[k]

\* the affected core set by the precedence of the claim
ClaimAffected(t) ==
    IF HasToken(t, cpufreq_0) \/ HasToken(t, cpufreq_d0) THEN {0, 1, 2, 3}
    ELSE IF HasToken(t, cpufreq_1) \/ HasToken(t, cpufreq_d1) THEN {4, 5}
    ELSE IF HasToken(t, cpufreq_2) \/ HasToken(t, cpufreq_d2) THEN {6, 7}
    ELSE Cores

\* the discovered cooling devices of the loaded table
Devices == Range(get_cooling_cols(df))

\* the mappings detect_throttling has returned so far
Returned ==
    (IF throttle_summary.set THEN {throttle_summary.val} ELSE {})
    \cup (IF throttle_plot.set THEN {throttle_plot.val} ELSE {})

\* the mappings to look at: the returned ones and, during the cooling pass,
\* the one being built
Mappings == Returned \cup (IF pc = "detect_cooling" THEN {results} ELSE {})

SavedLines == {i \in DOMAIN stdout : stdout[i].sec = "saved"}

-----------------------------------------------------------------------------
(* C1 *)

C1_Record(d, c, rec) ==
    LET col == cpu_freq_col(c)
        first == FirstValidRows(d, col, 10)
        k == Cardinality(first)
        sum == SumRows(d.data[col], first)
        values == {d.data[col][i].v : i \in ValidRows(d, col)}
        lowest == CHOOSE x \in values : \A y \in values : x <= y
    IN  /\ rec.init_mhz.d > 0 /\ rec.drop_pct.d > 0
        /\ rec.init_mhz.n * k = sum * rec.init_mhz.d
        /\ rec.min_mhz = lowest
        /\ sum > 0 => rec.drop_pct.n * sum = 100 * (sum - lowest * k) * rec.drop_pct.d
        /\ sum <= 0 => rec.drop_pct.n = 0
        /\ rec.throttled_by_freq <=> rec.drop_pct.n > 5 * rec.drop_pct.d

\* C1: every core with a present frequency column and at least one valid
\* sample has a record whose init is the mean of the first 10 valid samples
\* (all when fewer), whose min is the least valid sample, whose drop_pct is
\* (1 - min/init) * 100 when init > 0 and 0 otherwise, and whose
\* throttled_by_freq is true exactly when drop_pct > 5.
C1_FreqRecord ==
    \A r \in Mappings : \A c \in Cores :
        HasFreq(df, c) => c \in DOMAIN r /\ C1_Record(df, c, r[c])

\* a returned record of a throttled core with more than 10 valid samples, an
\* invalid cell before the tenth of them, and an init that is not the mean of
\* all the valid samples
C1_Witness ==
    \E r \in Returned : \E c \in DOMAIN r :
        LET col == cpu_freq_col(c)
            valid == ValidRows(df, col)
            first == FirstValidRows(df, col, 10)
        IN  /\ Cardinality(valid) > 10
            /\ \E i \in 1..df.nrows : i \notin valid /\ \E j \in first : i < j
            /\ r[c].init_mhz.n * Cardinality(valid)
                   # SumRows(df.data[col], valid) * r[c].init_mhz.d
            /\ r[c].throttled_by_freq

-----------------------------------------------------------------------------
(* C2 *)

\* C2 as claimed: for every discovered cooling device and every core of its
\* affected set that has a record, throttled_by_cooling is true exactly when
\* that device has a sample above 0.
C2_Original ==
    LET active == {m \in Devices : Active(df, m.col)}
    IN  \A r \in Returned : \A m \in Devices :
            \A c \in ClaimAffected(m.type) \cap DOMAIN r :
                r[c].throttled_by_cooling <=> m \in active

\* C2 as amended: a core with a record has throttled_by_cooling true exactly
\* when some discovered cooling device whose affected set holds the core has a
\* sample above 0 (missing and non-numeric cells counting as 0).
C2_AnyDevice ==
    LET active == {m \in Devices : Active(df, m.col)}
        flagged == UNION {ClaimAffected(m.type) : m \in active}
    IN  \A r \in Returned : \A c \in DOMAIN r :
            r[c].throttled_by_cooling <=> c \in flagged

\* a core flagged by one device while another device that affects it is idle
C2_Witness ==
    \E r \in Returned : \E m \in Devices : \E c \in ClaimAffected(m.type) \cap DOMAIN r :
        r[c].throttled_by_cooling /\ ~Active(df, m.col)

-----------------------------------------------------------------------------
(* C3 *)

\* C3: the affected core set of an active cooling device follows from its
\* lower-cased type by the first matching branch of cpufreq_0/cpufreq-0 ->
\* {0,1,2,3}, cpufreq_1/cpufreq-1 -> {4,5}, cpufreq_2/cpufreq-2 -> {6,7},
\* otherwise all 8 cores; a type with several tokens is mapped by the first
\* matching branch only.
C3_AffectedMapping ==
    (pc = "detect_cooling" /\ ci > 1 /\ Active(df, cooling_cols[ci - 1].col)) =>
        LET t == cooling_cols[ci - 1].type
            set == Range(affected)
        IN  /\ set = ClaimAffected(t)
            /\ Len(affected) = Cardinality(set)
            /\ t = T_thermal_cpufreq_0 => set = {0, 1, 2, 3}
            /\ t = T_thermal_cpufreq_1 => set = {4, 5}
            /\ t = T_CPUFREQ_2 => set = {6, 7}
            /\ t = T_thermal_devfreq_0 => set = Cores
            /\ t = T_two_tokens => set = {0, 1, 2, 3}

\* an active device whose type holds cpufreq_2 and, after it, cpufreq-0 has
\* just been mapped
C3_Witness ==
    /\ pc = "detect_cooling" /\ ci > 1
    /\ Active(df, cooling_cols[ci - 1].col)
    /\ cooling_cols[ci - 1].type = T_two_tokens
    /\ affected = <<0, 1, 2, 3>>

-----------------------------------------------------------------------------
(* C4 *)

C4_Combined ==
    \A r \in Mappings \cup {results} : \A c \in DOMAIN r :
        r[c].throttled <=> (r[c].throttled_by_freq \/ r[c].throttled_by_cooling)

C4_CoolingStep ==
    (pc = "detect_cooling" /\ pc' = "detect_cooling") =>
        /\ DOMAIN results' = DOMAIN results
        /\ \A c \in DOMAIN results :
            /\ results[c].throttled_by_cooling => results'[c].throttled_by_cooling
            /\ results[c].throttled => results'[c].throttled
            /\ results'[c].throttled_by_freq = results[c].throttled_by_freq

\* C4: in every record, returned or being built, throttled = throttled_by_freq
\* OR throttled_by_cooling, after every step of the cooling pass; a step of the
\* cooling pass never clears throttled_by_cooling or throttled.
C4_ThrottledIsOr == []C4_Combined /\ [][C4_CoolingStep]_vars

\* two devices processed: a core throttled by cooling alone and a core
\* throttled by both
C4_Witness ==
    /\ pc = "detect_cooling" /\ ci = 3
    /\ \E c \in DOMAIN results :
        ~results[c].throttled_by_freq /\ results[c].throttled_by_cooling
        /\ results[c].throttled
    /\ \E c \in DOMAIN results :
        results[c].throttled_by_freq /\ results[c].throttled_by_cooling

-----------------------------------------------------------------------------
(* C5 *)

\* C5: the keys of the mapping are exactly the cores whose frequency column is
\* present and has a valid sample; the cooling pass adds no key.
C5_KeySet ==
    \A r \in Mappings : DOMAIN r = {c \in Cores : HasFreq(df, c)}

\* a returned mapping without core 2 (no column) and without core 3 (no valid
\* sample), though an active device affects all 8 cores
C5_Witness ==
    \E r \in Returned :
        /\ cpu_freq_col(2) \notin Range(df.columns)
        /\ cpu_freq_col(3) \in Range(df.columns)
        /\ 2 \notin DOMAIN r /\ 3 \notin DOMAIN r /\ 0 \in DOMAIN r
        /\ \E m \in Devices : Active(df, m.col) /\ ClaimAffected(m.type) = Cores

-----------------------------------------------------------------------------
(* C6 *)

\* C6: no line of the CPU frequency, CPU utilization, NPU utilization or
\* temperature section prints a statistic of an empty set of values (NaN), and
\* no NPU line is printed for a column without a valid cell.
C6_NoNaNLine ==
    /\ \A i \in DOMAIN stdout :
        stdout[i].sec \in {"freq", "util", "npu", "temp"} =>
            \A k \in DOMAIN stdout[i].stats : ~stdout[i].stats[k].nan
    /\ \A i \in DOMAIN stdout :
        stdout[i].sec = "npu" => ValidRows(df, npu_col(stdout[i].key)) # {}

-----------------------------------------------------------------------------
(* C7 *)

-----------------------------------------------------------------------------
(* C8 *)

-----------------------------------------------------------------------------
(* C9 *)

\* C9: with a path given to --save the chart is written to that path and to no
\* other, it is not shown, and the one line Saved: <path> is printed, after
\* the write and last; without --save no file is written, no Saved line is
\* printed and the chart is shown.
C9_SaveOrShow ==
    /\ \A i \in SavedLines : stdout[i].key \in {f.path : f \in files}
    /\ SavedLines # {} => save.given
    /\ pc = "done" =>
        /\ (save.given /\ save.path # <<>>) =>
            /\ {f.path : f \in files} = {save.path}
            /\ ~shown
            /\ SavedLines = {Len(stdout)}
            /\ stdout[Len(stdout)].key = save.path
        /\ ~save.given =>
            /\ files = {}
            /\ SavedLines = {}
            /\ shown

\* a finished run that wrote report.png
C9_Witness ==
    /\ pc = "done"
    /\ save.path = S_report_png
    /\ \E f \in files : f.path = S_report_png
    /\ SavedLines # {}

-----------------------------------------------------------------------------
(* C10 *)

====
